---------------------------- MODULE Spec2Model ----------------------------
(***************************************************************************)
(* The discrete-event engines of eventron.                                 *)
(*                                                                         *)
(* Two variants of class DiscreteEventEngine are modelled:                 *)
(*   variant = "N"   the N-station, claim-based engine (src/unnamed/       *)
(*                   part_002),                                            *)
(*   variant = "Two" the two-station, queueing engine (src/engines/        *)
(*                   DiscreteEventEngine.ts).                              *)
(* The fields the two classes share (event queue, clock, registry, box     *)
(* counters) are one set of variables; Init fixes the variant.             *)
(*                                                                         *)
(* Time is in milliseconds of virtual time.  The locations are collinear   *)
(* with coordinates that are multiples of 10, so every Euclidean distance  *)
(* is an integer and calculateTravelTime is computed exactly.              *)
(***************************************************************************)
EXTENDS Integers, Sequences, FiniteSets, TLC

(* ------------------------------ bounds -------------------------------- *)

\* the largest box count setMaxBoxes is called with before the first start
MaxBoxes == 4

\* the number of travelers ever admitted with addTraveler (ids 1..MaxTravelers)
MaxTravelers == 3

\* the largest number of stations added with addProcessingStation
MaxStations == 2

\* the number of consecutive step() calls followed on an empty event queue
MaxIdleTicks == 2

\* the number of calls made from outside (addTraveler, stop,
\* setSimulationSpeed) after the first start()
MaxCalls == 1

\* travelers (and boxes) of the crowded two-station run
CrowdSize == 5

(* ------------------------- program constants -------------------------- *)

baseTravelerSpeed == 2

processingDuration == 2000

collectionDuration == 1000

\* the period of the setInterval timer, and the factor of step()'s advance
TickMs == 50

\* the delay of TRAVELER_START_JOURNEY and SIMULATION_COMPLETE, and the floor
\* of calculateTravelTime
MinDelay == 100

\* the speed multipliers offered to setSimulationSpeed
Speeds == {2, 4}

\* `number | null` fields hold traveler ids from 1 up; 0 stands for null
Null == 0

VARIABLES
    variant,                      \* "N" or "Two": which class is running
    eventQueue,                   \* SimulationEvent[]
    currentTime,
    isRunning,
    intervalId,                   \* TRUE while the setInterval timer is armed
    nextEventId,
    travelers,                    \* Map<number, TravelerState>
    simulationSpeed,
    availableBoxes,
    totalBoxesProcessed,
    maxBoxes,
    hasBeenInitialized,
    locationA,
    locationC,
    processingStations,           \* N: ProcessingStation[] in insertion order
    locationB1,                   \* Two
    locationB2,                   \* Two
    processingQueueB1,            \* Two
    processingQueueB2,            \* Two
    currentProcessingTravelerB1,  \* Two
    currentProcessingTravelerB2,  \* Two
    nextId,                       \* the caller's id counter (nextIdRef)
    pc,                           \* "idle", or "draining" inside step()
    idleTicks,                    \* consecutive step() calls on an empty queue
    calls,                        \* calls from outside since the first start()
    last,                         \* observation: the operation that just ran
    completed,                    \* observation: SIMULATION_COMPLETE was processed
    processed,                    \* observation: ids of the events handed to processEvent
    people,                       \* SimulationContext: the traveler list last published
    boxStatus                     \* SimulationContext: the box status last published

clockVars == <<currentTime, simulationSpeed>>

runVars == <<isRunning, intervalId, hasBeenInitialized>>

boxVars == <<availableBoxes, totalBoxesProcessed, maxBoxes>>

locVars == <<locationA, locationC, locationB1, locationB2>>

twoVars == <<processingQueueB1, processingQueueB2,
             currentProcessingTravelerB1, currentProcessingTravelerB2>>

obsVars == <<last, completed, processed>>

ctxVars == <<people, boxStatus>>

vars == <<variant, eventQueue, nextEventId, travelers, processingStations,
          nextId, pc, idleTicks, calls, clockVars, runVars, boxVars, locVars,
          twoVars, obsVars, ctxVars>>

(* ------------------------------ helpers ------------------------------- *)

Min(S) == CHOOSE m \in S : \A n \in S : m <= n

Max2(a, b) == IF a >= b THEN a ELSE b

\* Math.sqrt on the squared distances of the model's layouts (perfect squares)
Sqrt(n) == CHOOSE r \in 0..n : r * r <= n /\ (r + 1) * (r + 1) > n

Point(px, py) == [x |-> px, y |-> py]

\* event.data: stationId "" and postProcessing FALSE stand for absent fields
NoData == [stationId |-> "", postProcessing |-> FALSE]

StationData(s) == [stationId |-> s, postProcessing |-> FALSE]

PostProcessingData == [stationId |-> "", postProcessing |-> TRUE]

NoEvent == [id |-> 0, time |-> 0, type |-> "", entityId |-> 0, data |-> NoData]

StationId(i) == IF i = 1 THEN "S1" ELSE IF i = 2 THEN "S2"
                ELSE IF i = 3 THEN "S3" ELSE "S4"

(* -------------------------- shared operations ------------------------- *)

\* a travel time without the lower limit of 100
calculateTravelTimeUnclamped(fromX, fromY, toX, toY) ==
    (Sqrt((toX - fromX) * (toX - fromX) + (toY - fromY) * (toY - fromY)) * 20)
        \div baseTravelerSpeed

calculateTravelTime(fromX, fromY, toX, toY) ==
    LET distance == Sqrt((toX - fromX) * (toX - fromX) + (toY - fromY) * (toY - fromY))
    IN  Max2((distance * 20) \div baseTravelerSpeed, MinDelay)

\* findIndex with `>=` for `>`: the new event goes before its equals
findIndexLaterOrEqual(q, time) ==
    LET later == {i \in 1..Len(q) : q[i].time >= time}
    IN  IF later = {} THEN 0 ELSE Min(later)

\* the index findIndex returns (1-based), 0 for its -1
findIndexLater(q, time) ==
    LET later == {i \in 1..Len(q) : q[i].time > time}
    IN  IF later = {} THEN 0 ELSE Min(later)

\* scheduleEvent on queue q with event id eid: the queue after the insertion
scheduleEvent(q, eid, delay, type, entityId, data) ==
    LET event == [id |-> eid, time |-> currentTime + delay, type |-> type,
                  entityId |-> entityId, data |-> data]
        insertIndex == findIndexLater(q, event.time)
    IN  IF insertIndex = 0
        THEN Append(q, event)
        ELSE SubSeq(q, 1, insertIndex - 1) \o <<event>> \o SubSeq(q, insertIndex, Len(q))

newTraveler(id) ==
    [id |-> id, currentLocation |-> "A", stage |-> "idle",
     journeyStartTime |-> currentTime, currentSegmentStartTime |-> currentTime,
     x |-> locationA.x, y |-> locationA.y, isActive |-> TRUE,
     targetStation |-> "", hasBox |-> FALSE, boxesProcessed |-> 0]

\* Map.set on the registry
setTraveler(reg, id, t) == [i \in (DOMAIN reg) \cup {id} |-> IF i = id THEN t ELSE reg[i]]

\* a Map.delete that leaves the entry in place
deleteTravelerKeepsEntry(reg, id) == reg

\* Map.delete on the registry
deleteTraveler(reg, id) == [i \in (DOMAIN reg) \ {id} |-> reg[i]]

\* `!traveler || !traveler.isActive`
missingOrInactive(id) == id \notin DOMAIN travelers \/ ~travelers[id].isActive

\* What one processEvent call leaves behind: the queue, the event id counter,
\* the registry, the stations, the box counters, isRunning, the two-station
\* queues and occupants, and whether the observer was notified.
Unchanged(q) ==
    [q |-> q, eid |-> nextEventId, trav |-> travelers, st |-> processingStations,
     avail |-> availableBoxes, total |-> totalBoxesProcessed, run |-> isRunning,
     qB1 |-> processingQueueB1, qB2 |-> processingQueueB2,
     curB1 |-> currentProcessingTravelerB1, curB2 |-> currentProcessingTravelerB2,
     notified |-> FALSE]

\* r after one scheduleEvent call
Scheduled(r, delay, type, entityId, data) ==
    [r EXCEPT !.q = scheduleEvent(r.q, r.eid, delay, type, entityId, data),
              !.eid = r.eid + 1]

\* r with traveler id's record replaced
WithTraveler(r, id, t) == [r EXCEPT !.trav = setTraveler(r.trav, id, t)]

Notified(r) == [r EXCEPT !.notified = TRUE]

\* checkSimulationComplete after the registry became r.trav
checkSimulationComplete(r) ==
    IF r.total >= maxBoxes /\ DOMAIN r.trav = {}
    THEN Scheduled(r, MinDelay, "SIMULATION_COMPLETE", 0, NoData)
    ELSE r

\* a stop() that leaves isRunning set
stoppedStillRunning(r) == r

\* stop(): isRunning = false (the timer is cleared by the action that applies r)
stopped(r) == [r EXCEPT !.run = FALSE]

\* the traveler sent towards the origin
\* a rerouting that forgets the stage
towardsAKeepsStage(t) ==
    [t EXCEPT !.currentLocation = "TRAVELING_TO_A", !.currentSegmentStartTime = currentTime]

towardsA(t) ==
    [t EXCEPT !.stage = "returningToA", !.currentLocation = "TRAVELING_TO_A",
              !.currentSegmentStartTime = currentTime]

(* ------------------- N-station engine: stations ----------------------- *)

newStation(id, px, py) ==
    [id |-> id, x |-> px, y |-> py, state |-> "available",
     currentProcessingTraveler |-> Null, claimedByTraveler |-> Null, queue |-> <<>>]

\* Map.get on the station table: the index of station id, 0 when it is missing
stationIndex(st, id) ==
    LET found == {i \in 1..Len(st) : st[i].id = id}
    IN  IF found = {} THEN 0 ELSE Min(found)

\* a selection that skips the stations in use but not the claimed ones
selectTargetStationNotActive(st) ==
    LET free == {i \in 1..Len(st) : st[i].state # "active"}
    IN  IF Len(st) = 0 \/ free = {} THEN "" ELSE st[Min(free)].id

\* the id of the first 'available' station in insertion order, "" for null
selectTargetStation(st) ==
    LET avail == {i \in 1..Len(st) : st[i].state = "available"}
    IN  IF Len(st) = 0 \/ avail = {} THEN "" ELSE st[Min(avail)].id

\* a claimStation that returns true for every station of the table
claimSucceedsIfPresent(st, stationId) == stationIndex(st, stationId) # 0

\* claimStation's return value
claimSucceeds(st, stationId) ==
    /\ stationIndex(st, stationId) # 0
    /\ st[stationIndex(st, stationId)].state = "available"

\* claimStation's effect on the station table
claimStation(st, stationId, travelerId) ==
    IF claimSucceeds(st, stationId)
    THEN [st EXCEPT ![stationIndex(st, stationId)] =
            [@ EXCEPT !.state = "claimed", !.claimedByTraveler = travelerId]]
    ELSE st

movingTo(s) == "movingTo" \o s

processingAt(s) == "processingAt" \o s

travelingTo(s) == "TRAVELING_TO_" \o s

(* ------------------- N-station engine: processEvent ------------------- *)

StartJourney(ev, q) ==
    LET id == ev.entityId
        r  == Unchanged(q)
    IN  IF missingOrInactive(id) THEN r
        ELSE LET t == travelers[id] IN
             IF availableBoxes <= 0
             THEN Scheduled(WithTraveler(r, id, towardsA(t)),
                            calculateTravelTime(t.x, t.y, locationA.x, locationA.y),
                            "TRAVELER_ARRIVE_AT_A", id, NoData)
             ELSE Notified(Scheduled(
                    WithTraveler(r, id, [t EXCEPT !.stage = "movingToC",
                                                  !.currentLocation = "TRAVELING_TO_C",
                                                  !.currentSegmentStartTime = currentTime]),
                    calculateTravelTime(t.x, t.y, locationC.x, locationC.y),
                    "TRAVELER_ARRIVE_AT_C", id, NoData))

\* the first `case 'TRAVELER_ARRIVE_AT_C'` of the switch; the second one, for
\* data.postProcessing, is never selected
ArriveAtC(ev, q) ==
    LET id == ev.entityId
        r  == Unchanged(q)
    IN  IF missingOrInactive(id) THEN r
        ELSE LET t == [travelers[id] EXCEPT !.x = locationC.x, !.y = locationC.y,
                                            !.currentLocation = "C",
                                            !.currentSegmentStartTime = currentTime]
             IN  IF availableBoxes <= 0
                 THEN Scheduled(WithTraveler(r, id, towardsA(t)),
                                calculateTravelTime(locationC.x, locationC.y,
                                                    locationA.x, locationA.y),
                                "TRAVELER_ARRIVE_AT_A", id, NoData)
                 ELSE Notified(Scheduled(
                        WithTraveler(r, id, [t EXCEPT !.stage = "collectingAtC"]),
                        collectionDuration, "TRAVELER_COLLECT_BOX", id, NoData))

\* COLLECT_BOX after the box was taken and no station is 'available'
CollectNoStation(r, id, t) ==
    Scheduled(WithTraveler(r, id, towardsA(t)),
              calculateTravelTime(locationC.x, locationC.y, locationA.x, locationA.y),
              "TRAVELER_ARRIVE_AT_A", id, NoData)

CollectBox(ev, q) ==
    LET id == ev.entityId
        r  == Unchanged(q)
    IN  IF missingOrInactive(id) THEN r
        ELSE IF availableBoxes <= 0
        THEN Scheduled(WithTraveler(r, id, towardsA(travelers[id])),
                       calculateTravelTime(locationC.x, locationC.y,
                                           locationA.x, locationA.y),
                       "TRAVELER_ARRIVE_AT_A", id, NoData)
        ELSE LET taken  == [r EXCEPT !.avail = availableBoxes - 1]
                 t      == [travelers[id] EXCEPT !.hasBox = TRUE]
                 target == selectTargetStation(processingStations)
             IN  IF target = ""
                 THEN CollectNoStation(taken, id, t)
                 ELSE IF ~claimSucceeds(processingStations, target)
                 THEN \* put the box back and try again
                      Scheduled(WithTraveler(r, id, [t EXCEPT !.hasBox = FALSE]),
                                MinDelay, "TRAVELER_COLLECT_BOX", id, NoData)
                 ELSE LET st == claimStation(processingStations, target, id)
                          s  == st[stationIndex(st, target)]
                          t2 == [t EXCEPT !.targetStation = target,
                                          !.currentSegmentStartTime = currentTime,
                                          !.stage = movingTo(target),
                                          !.currentLocation = travelingTo(target)]
                      IN  Notified(Scheduled(
                            [WithTraveler(taken, id, t2) EXCEPT !.st = st],
                            calculateTravelTime(locationC.x, locationC.y, s.x, s.y),
                            "TRAVELER_ARRIVE_AT_STATION", id, StationData(target)))

\* `event.data?.stationId || traveler.targetStation`
eventStation(ev, t) == IF ev.data.stationId # "" THEN ev.data.stationId ELSE t.targetStation

\* an arrival that does not verify the claim
ArriveAtStationIgnoresClaim(ev, q) ==
    LET id == ev.entityId
        r  == Unchanged(q)
    IN  IF missingOrInactive(id) THEN r
        ELSE LET t         == travelers[id]
                 stationId == eventStation(ev, t)
                 i         == stationIndex(processingStations, stationId)
             IN  IF i = 0 THEN r
                 ELSE LET s == processingStations[i] IN
                      Notified(Scheduled(
                        [WithTraveler(r, id,
                            [t EXCEPT !.x = s.x, !.y = s.y,
                                      !.currentLocation = stationId,
                                      !.currentSegmentStartTime = currentTime,
                                      !.stage = processingAt(stationId)])
                         EXCEPT !.st = [processingStations EXCEPT ![i] =
                             [@ EXCEPT !.state = "active",
                                       !.currentProcessingTraveler = id]]],
                        processingDuration, "TRAVELER_FINISH_PROCESSING", id,
                        StationData(stationId)))

ArriveAtStation(ev, q) ==
    LET id == ev.entityId
        r  == Unchanged(q)
    IN  IF missingOrInactive(id) THEN r
        ELSE LET t         == travelers[id]
                 stationId == eventStation(ev, t)
                 i         == stationIndex(processingStations, stationId)
             IN  IF i = 0 THEN r
                 ELSE LET s == processingStations[i] IN
                      IF s.claimedByTraveler # id
                      THEN Scheduled(WithTraveler(r, id, towardsA(t)),
                                     calculateTravelTime(s.x, s.y, locationA.x, locationA.y),
                                     "TRAVELER_ARRIVE_AT_A", id, NoData)
                      ELSE Notified(Scheduled(
                             [WithTraveler(r, id,
                                 [t EXCEPT !.x = s.x, !.y = s.y,
                                           !.currentLocation = stationId,
                                           !.currentSegmentStartTime = currentTime,
                                           !.stage = processingAt(stationId)])
                              EXCEPT !.st = [processingStations EXCEPT ![i] =
                                  [@ EXCEPT !.state = "active",
                                            !.currentProcessingTraveler = id]]],
                             processingDuration, "TRAVELER_FINISH_PROCESSING", id,
                             StationData(stationId)))

\* a release that forgets to clear the claimant
releasedKeepsClaim(s) ==
    [s EXCEPT !.state = "available", !.currentProcessingTraveler = Null]

\* the station released by FINISH_PROCESSING
released(s) ==
    [s EXCEPT !.state = "available", !.currentProcessingTraveler = Null,
              !.claimedByTraveler = Null]

\* a FINISH_PROCESSING that sends the traveler home when no box is left to
\* collect, whatever the count of processed boxes
FinishProcessingByBoxesLeft(ev, q) ==
    LET id == ev.entityId
        r  == Unchanged(q)
    IN  IF missingOrInactive(id) THEN r
        ELSE LET t0        == travelers[id]
                 stationId == eventStation(ev, t0)
                 i         == stationIndex(processingStations, stationId)
             IN  IF i = 0 THEN r
                 ELSE LET s     == processingStations[i]
                          t     == [t0 EXCEPT !.hasBox = FALSE,
                                              !.boxesProcessed = @ + 1]
                          total == totalBoxesProcessed + 1
                          r1    == [r EXCEPT !.total = total,
                                             !.st = [processingStations EXCEPT
                                                       ![i] = released(s)]]
                      IN  IF availableBoxes <= 0
                          THEN Notified(Scheduled(
                                 WithTraveler(r1, id, towardsA(t)),
                                 calculateTravelTime(s.x, s.y, locationA.x, locationA.y),
                                 "TRAVELER_ARRIVE_AT_A", id, NoData))
                          ELSE Notified(Scheduled(
                                 WithTraveler(r1, id,
                                   [t EXCEPT !.stage = "returningToC",
                                             !.currentLocation = "TRAVELING_TO_C",
                                             !.currentSegmentStartTime = currentTime]),
                                 calculateTravelTime(s.x, s.y, locationC.x, locationC.y),
                                 "TRAVELER_ARRIVE_AT_C", id, PostProcessingData))

FinishProcessing(ev, q) ==
    LET id == ev.entityId
        r  == Unchanged(q)
    IN  IF missingOrInactive(id) THEN r
        ELSE LET t0        == travelers[id]
                 stationId == eventStation(ev, t0)
                 i         == stationIndex(processingStations, stationId)
             IN  IF i = 0 THEN r
                 ELSE LET s     == processingStations[i]
                          t     == [t0 EXCEPT !.hasBox = FALSE,
                                              !.boxesProcessed = @ + 1]
                          total == totalBoxesProcessed + 1
                          r1    == [r EXCEPT !.total = total,
                                             !.st = [processingStations EXCEPT
                                                       ![i] = released(s)]]
                      IN  IF total >= maxBoxes
                          THEN Notified(Scheduled(
                                 WithTraveler(r1, id, towardsA(t)),
                                 calculateTravelTime(s.x, s.y, locationA.x, locationA.y),
                                 "TRAVELER_ARRIVE_AT_A", id, NoData))
                          ELSE Notified(Scheduled(
                                 WithTraveler(r1, id,
                                   [t EXCEPT !.stage = "returningToC",
                                             !.currentLocation = "TRAVELING_TO_C",
                                             !.currentSegmentStartTime = currentTime]),
                                 calculateTravelTime(s.x, s.y, locationC.x, locationC.y),
                                 "TRAVELER_ARRIVE_AT_C", id, PostProcessingData))

\* ARRIVE_AT_A: the traveler is deactivated and deleted from the registry
ArriveAtA(ev, q) ==
    LET id == ev.entityId
        r  == Unchanged(q)
    IN  IF missingOrInactive(id) THEN r
        ELSE Notified(checkSimulationComplete(
               [r EXCEPT !.trav = deleteTraveler(travelers, id)]))

SimulationComplete(ev, q) == Notified(stopped(Unchanged(q)))

\* processEvent of the N-station engine on event ev, q being the rest of the queue
processEventN(ev, q) ==
    CASE ev.type = "TRAVELER_START_JOURNEY"     -> StartJourney(ev, q)
      [] ev.type = "TRAVELER_ARRIVE_AT_C"       -> ArriveAtC(ev, q)
      [] ev.type = "TRAVELER_COLLECT_BOX"       -> CollectBox(ev, q)
      [] ev.type = "TRAVELER_ARRIVE_AT_STATION" -> ArriveAtStation(ev, q)
      [] ev.type = "TRAVELER_FINISH_PROCESSING" -> FinishProcessing(ev, q)
      [] ev.type = "TRAVELER_ARRIVE_AT_A"       -> ArriveAtA(ev, q)
      [] ev.type = "SIMULATION_COMPLETE"        -> SimulationComplete(ev, q)
      [] OTHER                                  -> Notified(Unchanged(q))

(* ------------------- two-station engine: processEvent ----------------- *)

otherStation(b) == IF b = "B1" THEN "B2" ELSE "B1"

locationB(b) == IF b = "B1" THEN locationB1 ELSE locationB2

\* currentProcessingTraveler<b> and processingQueue<b> in r
occupant(r, b) == IF b = "B1" THEN r.curB1 ELSE r.curB2

waiting(r, b) == IF b = "B1" THEN r.qB1 ELSE r.qB2

withOccupant(r, b, id) == IF b = "B1" THEN [r EXCEPT !.curB1 = id] ELSE [r EXCEPT !.curB2 = id]

withWaiting(r, b, w) == IF b = "B1" THEN [r EXCEPT !.qB1 = w] ELSE [r EXCEPT !.qB2 = w]

\* (currentProcessingTraveler<b> ? 1 : 0) + processingQueue<b>.length
stationLoad(r, b) == (IF occupant(r, b) # Null THEN 1 ELSE 0) + Len(waiting(r, b))

\* selectTargetStation of the two-station engine; coin is the station that
\* `Math.random() < 0.5 ? 'B1' : 'B2'` yields
selectTargetStationTwo(r, coin) ==
    IF stationLoad(r, "B1") = stationLoad(r, "B2") THEN coin
    ELSE IF stationLoad(r, "B1") < stationLoad(r, "B2") THEN "B1" ELSE "B2"

StartJourneyTwo(ev, q) ==
    LET id == ev.entityId
        r  == Unchanged(q)
    IN  IF missingOrInactive(id) THEN r
        ELSE LET t == travelers[id] IN
             IF availableBoxes <= 0
             THEN Scheduled(WithTraveler(r, id, towardsA(t)),
                            calculateTravelTime(t.x, t.y, locationA.x, locationA.y),
                            "TRAVELER_ARRIVE_AT_A", id, NoData)
             ELSE Notified(Scheduled(
                    WithTraveler(r, id, [t EXCEPT !.stage = "movingToC",
                                                  !.currentLocation = "TRAVELING_TO_C",
                                                  !.currentSegmentStartTime = currentTime]),
                    calculateTravelTime(t.x, t.y, locationC.x, locationC.y),
                    "TRAVELER_ARRIVE_AT_C", id, NoData))

ArriveAtCTwo(ev, q) ==
    LET id == ev.entityId
        r  == Unchanged(q)
    IN  IF missingOrInactive(id) THEN r
        ELSE LET t == [travelers[id] EXCEPT !.x = locationC.x, !.y = locationC.y,
                                            !.currentLocation = "C",
                                            !.stage = "collectingAtC",
                                            !.currentSegmentStartTime = currentTime]
             IN  IF availableBoxes <= 0
                 THEN Scheduled(
                        WithTraveler(r, id, [t EXCEPT !.stage = "returningToA",
                                                      !.currentLocation = "TRAVELING_TO_A"]),
                        calculateTravelTime(locationC.x, locationC.y,
                                            locationA.x, locationA.y),
                        "TRAVELER_ARRIVE_AT_A", id, NoData)
                 ELSE Notified(Scheduled(WithTraveler(r, id, t), collectionDuration,
                                         "TRAVELER_COLLECT_BOX", id, NoData))

CollectBoxTwo(ev, q, coin) ==
    LET id == ev.entityId
        r  == Unchanged(q)
    IN  IF missingOrInactive(id) THEN r
        ELSE IF availableBoxes <= 0
        THEN Scheduled(
               WithTraveler(r, id, [travelers[id] EXCEPT
                                      !.stage = "returningToA",
                                      !.currentLocation = "TRAVELING_TO_A"]),
               calculateTravelTime(locationC.x, locationC.y, locationA.x, locationA.y),
               "TRAVELER_ARRIVE_AT_A", id, NoData)
        ELSE LET target == selectTargetStationTwo(r, coin)
                 t == [travelers[id] EXCEPT !.hasBox = TRUE,
                                            !.targetStation = target,
                                            !.currentSegmentStartTime = currentTime,
                                            !.stage = movingTo(target),
                                            !.currentLocation = travelingTo(target)]
             IN  Notified(Scheduled(
                   WithTraveler([r EXCEPT !.avail = availableBoxes - 1], id, t),
                   calculateTravelTime(locationC.x, locationC.y,
                                       locationB(target).x, locationB(target).y),
                   "TRAVELER_ARRIVE_AT_" \o target, id, NoData))

\* a switch condition content with one traveler less at the other station
switchIsBetterByOne(r, b) == stationLoad(r, otherStation(b)) + 1 <= stationLoad(r, b) + 1

\* `<other>Load + 2 <= <b>LoadWithMe`: the switch condition on arrival at b
switchIsBetter(r, b) == stationLoad(r, otherStation(b)) + 2 <= stationLoad(r, b) + 1

\* an arrival that joins the queue in front of those already waiting
ArriveAtBJoinsAtHead(ev, q, b) ==
    LET id == ev.entityId
        r  == Unchanged(q)
    IN  IF missingOrInactive(id) THEN r
        ELSE LET t == [travelers[id] EXCEPT !.x = locationB(b).x, !.y = locationB(b).y,
                                            !.currentLocation = b,
                                            !.currentSegmentStartTime = currentTime]
                 canSwitch == t.stage = movingTo(b)
                 o == otherStation(b)
             IN  IF canSwitch /\ switchIsBetter(r, b)
                 THEN Notified(Scheduled(
                        WithTraveler(r, id, [t EXCEPT !.targetStation = o,
                                                      !.stage = movingTo(o),
                                                      !.currentLocation = travelingTo(o)]),
                        calculateTravelTime(locationB(b).x, locationB(b).y,
                                            locationB(o).x, locationB(o).y),
                        "TRAVELER_ARRIVE_AT_" \o o, id, NoData))
                 ELSE IF occupant(r, b) = Null
                 THEN Notified(Scheduled(
                        WithTraveler(withOccupant(r, b, id), id,
                                     [t EXCEPT !.stage = processingAt(b)]),
                        processingDuration, "TRAVELER_FINISH_PROCESSING_" \o b, id, NoData))
                 ELSE Notified(
                        WithTraveler(withWaiting(r, b, <<id>> \o waiting(r, b)), id,
                                     [t EXCEPT !.stage = "waitingAt" \o b]))

\* TRAVELER_ARRIVE_AT_B1 (b = "B1") and TRAVELER_ARRIVE_AT_B2 (b = "B2")
ArriveAtB(ev, q, b) ==
    LET id == ev.entityId
        r  == Unchanged(q)
    IN  IF missingOrInactive(id) THEN r
        ELSE LET t == [travelers[id] EXCEPT !.x = locationB(b).x, !.y = locationB(b).y,
                                            !.currentLocation = b,
                                            !.currentSegmentStartTime = currentTime]
                 canSwitch == t.stage = movingTo(b)
                 o == otherStation(b)
             IN  IF canSwitch /\ switchIsBetter(r, b)
                 THEN Notified(Scheduled(
                        WithTraveler(r, id, [t EXCEPT !.targetStation = o,
                                                      !.stage = movingTo(o),
                                                      !.currentLocation = travelingTo(o)]),
                        calculateTravelTime(locationB(b).x, locationB(b).y,
                                            locationB(o).x, locationB(o).y),
                        "TRAVELER_ARRIVE_AT_" \o o, id, NoData))
                 ELSE IF occupant(r, b) = Null
                 THEN Notified(Scheduled(
                        WithTraveler(withOccupant(r, b, id), id,
                                     [t EXCEPT !.stage = processingAt(b)]),
                        processingDuration, "TRAVELER_FINISH_PROCESSING_" \o b, id, NoData))
                 ELSE Notified(
                        WithTraveler(withWaiting(r, b, Append(waiting(r, b), id)), id,
                                     [t EXCEPT !.stage = "waitingAt" \o b]))

\* a promotion that shifts the queue and starts nobody
promoteNextDropsHead(r, b) ==
    IF Len(waiting(r, b)) > 0 THEN withWaiting(r, b, Tail(waiting(r, b))) ELSE r

\* "Process next in queue" of FINISH_PROCESSING at b, on r with the occupant cleared
promoteNext(r, b) ==
    IF Len(waiting(r, b)) > 0
    THEN LET nextTravelerId == Head(waiting(r, b))
             r1 == withWaiting(r, b, Tail(waiting(r, b)))
         IN  IF nextTravelerId \in DOMAIN r1.trav /\ r1.trav[nextTravelerId].isActive
             THEN Scheduled(
                    WithTraveler(withOccupant(r1, b, nextTravelerId), nextTravelerId,
                                 [r1.trav[nextTravelerId] EXCEPT
                                    !.stage = processingAt(b),
                                    !.currentSegmentStartTime = currentTime]),
                    processingDuration, "TRAVELER_FINISH_PROCESSING_" \o b,
                    nextTravelerId, NoData)
             ELSE r1
    ELSE r

\* the finished traveler's next move: START_JOURNEY again while boxes are left
\* (its stage is not touched), to C otherwise
afterFinish(r, b, id) ==
    IF r.avail > 0
    THEN Scheduled(r, MinDelay, "TRAVELER_START_JOURNEY", id, NoData)
    ELSE Scheduled(
           WithTraveler(r, id, [r.trav[id] EXCEPT
                                  !.stage = "movingToC",
                                  !.currentLocation = "TRAVELING_TO_C",
                                  !.currentSegmentStartTime = currentTime]),
           calculateTravelTime(locationB(b).x, locationB(b).y, locationC.x, locationC.y),
           "TRAVELER_ARRIVE_AT_C", id, NoData)

\* a FINISH_PROCESSING that counts the box and leaves hasBox set
FinishProcessingBKeepsBox(ev, q, b) ==
    LET id == ev.entityId
        r  == Unchanged(q)
    IN  IF missingOrInactive(id) THEN r
        ELSE LET t  == [travelers[id] EXCEPT !.boxesProcessed = @ + 1]
                 r1 == withOccupant(
                         [WithTraveler(r, id, t) EXCEPT !.total = totalBoxesProcessed + 1],
                         b, Null)
             IN  Notified(afterFinish(promoteNext(r1, b), b, id))

\* TRAVELER_FINISH_PROCESSING_B1 (b = "B1") and _B2 (b = "B2")
FinishProcessingB(ev, q, b) ==
    LET id == ev.entityId
        r  == Unchanged(q)
    IN  IF missingOrInactive(id) THEN r
        ELSE LET t  == [travelers[id] EXCEPT !.hasBox = FALSE, !.boxesProcessed = @ + 1]
                 r1 == withOccupant(
                         [WithTraveler(r, id, t) EXCEPT !.total = totalBoxesProcessed + 1],
                         b, Null)
             IN  Notified(afterFinish(promoteNext(r1, b), b, id))

ArriveAtATwo(ev, q) ==
    LET id == ev.entityId
        r  == Unchanged(q)
    IN  IF missingOrInactive(id) THEN r
        ELSE Notified(checkSimulationComplete(
               [r EXCEPT !.trav = deleteTraveler(travelers, id)]))

SimulationCompleteTwo(ev, q) == Notified(stopped(Unchanged(q)))

\* processEvent of the two-station engine
processEventTwo(ev, q, coin) ==
    CASE ev.type = "TRAVELER_START_JOURNEY"        -> StartJourneyTwo(ev, q)
      [] ev.type = "TRAVELER_ARRIVE_AT_C"          -> ArriveAtCTwo(ev, q)
      [] ev.type = "TRAVELER_COLLECT_BOX"          -> CollectBoxTwo(ev, q, coin)
      [] ev.type = "TRAVELER_ARRIVE_AT_B1"         -> ArriveAtB(ev, q, "B1")
      [] ev.type = "TRAVELER_ARRIVE_AT_B2"         -> ArriveAtB(ev, q, "B2")
      [] ev.type = "TRAVELER_FINISH_PROCESSING_B1" -> FinishProcessingB(ev, q, "B1")
      [] ev.type = "TRAVELER_FINISH_PROCESSING_B2" -> FinishProcessingB(ev, q, "B2")
      [] ev.type = "TRAVELER_ARRIVE_AT_A"          -> ArriveAtATwo(ev, q)
      [] ev.type = "SIMULATION_COMPLETE"           -> SimulationCompleteTwo(ev, q)
      [] OTHER                                     -> Notified(Unchanged(q))

(* ------------------------------ actions ------------------------------- *)

Observe(op, ev, notified) == [op |-> op, event |-> ev, notified |-> notified]

\* The engine after construction and configuration: setMaxBoxes(boxes),
\* updateLocations, setSimulationSpeed(speed) and, for the N-station engine,
\* addProcessingStation for S1..S<stations>.
Configured(v, boxes, stations, speed) ==
    /\ variant = v
    /\ eventQueue = <<>>
    /\ currentTime = 0
    /\ isRunning = FALSE
    /\ intervalId = FALSE
    /\ nextEventId = 1
    /\ travelers = <<>>
    /\ simulationSpeed = speed
    /\ availableBoxes = boxes
    /\ totalBoxesProcessed = 0
    /\ maxBoxes = boxes
    /\ hasBeenInitialized = FALSE
    /\ locationA = Point(0, 0)
    /\ locationC = Point(10, 0)
    /\ processingStations = [i \in 1..stations |-> newStation(StationId(i), 10 + 10 * i, 0)]
    /\ locationB1 = Point(20, 0)
    /\ locationB2 = Point(30, 0)
    /\ processingQueueB1 = <<>>
    /\ processingQueueB2 = <<>>
    /\ currentProcessingTravelerB1 = Null
    /\ currentProcessingTravelerB2 = Null
    /\ nextId = 1
    /\ pc = "idle"
    /\ idleTicks = 0
    /\ calls = 0
    /\ last = Observe("init", NoEvent, FALSE)
    /\ completed = FALSE
    /\ processed = {}
    /\ people = <<>>
    /\ boxStatus = [availableBoxes |-> boxes, totalProcessed |-> 0]

InitN ==
    \E boxes \in 1..MaxBoxes, stations \in 1..MaxStations, speed \in Speeds :
        Configured("N", boxes, stations, speed)

InitTwo ==
    \E boxes \in 1..MaxBoxes, speed \in Speeds : Configured("Two", boxes, 0, speed)

Init == InitN \/ InitTwo

\* A call from outside the engine: between two timer callbacks, and after the
\* first start() at most MaxCalls of them.
Called ==
    /\ pc = "idle"
    /\ hasBeenInitialized => calls < MaxCalls
    /\ calls' = IF hasBeenInitialized THEN calls + 1 ELSE calls

\* addTraveler(id), called with the caller's next fresh id, while fewer than
\* limit travelers have been admitted
AdmitEngine(limit) ==
    /\ Called
    /\ nextId <= limit
    /\ travelers' = setTraveler(travelers, nextId, newTraveler(nextId))
    /\ IF availableBoxes > 0
       THEN /\ eventQueue' = scheduleEvent(eventQueue, nextEventId, MinDelay,
                                           "TRAVELER_START_JOURNEY", nextId, NoData)
            /\ nextEventId' = nextEventId + 1
       ELSE UNCHANGED <<eventQueue, nextEventId>>
    /\ nextId' = nextId + 1
    /\ last' = Observe("addTraveler", NoEvent, FALSE)
    /\ UNCHANGED <<variant, processingStations, pc, idleTicks, clockVars, runVars,
                   boxVars, locVars, twoVars, completed, processed>>

Admit(limit) == AdmitEngine(limit) /\ UNCHANGED ctxVars

AddTraveler == Admit(MaxTravelers)

\* start()
Start ==
    /\ pc = "idle"
    /\ ~isRunning
    /\ isRunning' = TRUE
    /\ hasBeenInitialized' = TRUE
    /\ intervalId' = TRUE
    /\ last' = Observe("start", NoEvent, FALSE)
    /\ UNCHANGED <<variant, eventQueue, nextEventId, travelers, processingStations,
                   nextId, pc, idleTicks, calls, clockVars, boxVars, locVars, twoVars, completed,
                   processed, ctxVars>>

\* stop(), called from outside the engine
Stop ==
    /\ Called
    /\ isRunning
    /\ isRunning' = FALSE
    /\ intervalId' = FALSE
    /\ last' = Observe("stop", NoEvent, FALSE)
    /\ UNCHANGED <<variant, eventQueue, nextEventId, travelers, processingStations,
                   nextId, pc, idleTicks, clockVars, hasBeenInitialized, boxVars, locVars,
                   twoVars, completed, processed, ctxVars>>

\* setSimulationSpeed(newSpeed)
SetSimulationSpeed ==
    /\ Called
    /\ \E newSpeed \in Speeds \ {simulationSpeed} : simulationSpeed' = newSpeed
    /\ last' = Observe("setSimulationSpeed", NoEvent, FALSE)
    /\ UNCHANGED <<variant, eventQueue, nextEventId, travelers, processingStations,
                   nextId, pc, idleTicks, currentTime, runVars, boxVars, locVars, twoVars,
                   completed, processed, ctxVars>>

\* a loop condition that leaves the events of the current instant in the queue
headDueStrictlyBefore == eventQueue # <<>> /\ eventQueue[1].time < currentTime

\* a loop condition that forgets the clock
headDueAnyTime == eventQueue # <<>>

\* the head of the queue is due: the loop condition of step()
headDue == eventQueue # <<>> /\ eventQueue[1].time <= currentTime

\* step() is running: either its loop is under way, or the timer fires now
\* and step() passes its isRunning check.  With nothing scheduled only
\* MaxIdleTicks consecutive steps are followed.
inStep ==
    \/ pc = "draining"
    \/ /\ pc = "idle"
       /\ intervalId
       /\ isRunning
       /\ eventQueue # <<>> \/ idleTicks < MaxIdleTicks

\* what `Math.random() < 0.5 ? 'B1' : 'B2'` can yield while ev is processed
\* (only COLLECT_BOX of the two-station engine draws it)
coins(ev) ==
    IF variant = "Two" /\ ev.type = "TRAVELER_COLLECT_BOX" THEN {"B1", "B2"} ELSE {"B1"}

processEvent(ev, q, coin) ==
    IF variant = "N" THEN processEventN(ev, q) ELSE processEventTwo(ev, q, coin)

\* a shift() that leaves the head in the queue
shiftedKeepsHead(q) == q

\* the queue after eventQueue.shift()
shifted(q) == Tail(q)

\* One iteration of step()'s loop: shift the due head and process it.
Drain ==
    /\ inStep
    /\ headDue
    /\ pc' = "draining"
    /\ \E ev \in {Head(eventQueue)} :
       \E coin \in coins(ev) :
       \E r \in {processEvent(ev, shifted(eventQueue), coin)} :
           /\ eventQueue' = r.q
           /\ nextEventId' = r.eid
           /\ travelers' = r.trav
           /\ processingStations' = r.st
           /\ availableBoxes' = r.avail
           /\ totalBoxesProcessed' = r.total
           /\ isRunning' = r.run
           /\ intervalId' = (intervalId /\ r.run)
           /\ processingQueueB1' = r.qB1
           /\ processingQueueB2' = r.qB2
           /\ currentProcessingTravelerB1' = r.curB1
           /\ currentProcessingTravelerB2' = r.curB2
           /\ last' = Observe("processEvent", ev, r.notified)
           /\ completed' = (completed \/ ev.type = "SIMULATION_COMPLETE")
           /\ processed' = processed \cup {ev.id}
    /\ UNCHANGED <<variant, nextId, idleTicks, calls, clockVars, maxBoxes,
                   hasBeenInitialized, locVars, ctxVars>>

\* an advance that ignores the speed multiplier
advancedIgnoresSpeed ==
    IF variant = "N" /\ ~isRunning THEN currentTime ELSE currentTime + TickMs

\* the clock after the loop of step(): the N-station engine advances it only
\* while still running, the two-station engine always
advanced ==
    IF variant = "N" /\ ~isRunning
    THEN currentTime
    ELSE currentTime + TickMs * simulationSpeed

\* The loop of step() ends: advance the clock and return.
Advance ==
    /\ inStep
    /\ ~headDue
    /\ currentTime' = advanced
    /\ pc' = "idle"
    /\ idleTicks' = IF pc = "idle" /\ eventQueue = <<>> THEN idleTicks + 1 ELSE 0
    /\ last' = Observe("advance", NoEvent, FALSE)
    /\ UNCHANGED <<variant, eventQueue, nextEventId, travelers, processingStations,
                   nextId, calls, simulationSpeed, runVars, boxVars, locVars, twoVars,
                   completed, processed, ctxVars>>

Step == Drain \/ Advance

Next == AddTraveler \/ Start \/ Stop \/ SetSimulationSpeed \/ Step

Spec == Init /\ [][Next]_vars

SpecN == InitN /\ [][Next]_vars

SpecTwo == InitTwo /\ [][Next]_vars

\* No call from outside after the first start(): travelers are admitted
\* before it, and the timer keeps firing.
NextClosed ==
    \/ ~hasBeenInitialized /\ AddTraveler
    \/ ~hasBeenInitialized /\ Start
    \/ Step

ClosedN == InitN /\ [][NextClosed]_vars /\ WF_vars(Step)

ClosedTwo == InitTwo /\ [][NextClosed]_vars /\ WF_vars(Step)

\* the ids of the states getTravelerStates returns: the registered travelers
\* that are active
listedIds == {i \in DOMAIN travelers : travelers[i].isActive}

(* --------------------------- getTravelerStates ------------------------ *)

\* `currentLocation.startsWith('TRAVELING_TO_')`
isTravelingTo(loc) ==
    loc \in {"TRAVELING_TO_A", "TRAVELING_TO_C", "TRAVELING_TO_B1", "TRAVELING_TO_B2"}
             \cup {travelingTo(StationId(k)) : k \in 1..(MaxStations + 1)}

\* no interpolation: the snapshot keeps the record's x and y
Still == [moves |-> FALSE, from |-> Point(0, 0), to |-> Point(0, 0)]

Segment(from, to) == [moves |-> TRUE, from |-> from, to |-> to]

\* the segment getTravelerStates of the N-station engine interpolates on
\* for traveler record t: startX/startY and the point it moves towards
segmentN(t) ==
    LET i == stationIndex(processingStations, t.targetStation)
        stationPoint == Point(processingStations[i].x, processingStations[i].y)
    IN  IF t.currentLocation = "TRAVELING_TO_C"
        THEN IF t.stage = "returningToC" /\ t.targetStation # "" /\ i # 0
             THEN Segment(stationPoint, locationC)
             ELSE Segment(locationA, locationC)
        ELSE IF isTravelingTo(t.currentLocation) /\ t.targetStation # ""
        THEN IF i # 0 THEN Segment(locationC, stationPoint) ELSE Still
        ELSE IF t.currentLocation = "TRAVELING_TO_A"
        THEN Segment(locationC, locationA)
        ELSE Still

\* the same for the two-station engine
segmentTwo(t) ==
    IF t.currentLocation = "TRAVELING_TO_C"
    THEN IF t.targetStation \in {"B1", "B2"}
         THEN Segment(locationB(t.targetStation), locationC)
         ELSE Segment(locationA, locationC)
    ELSE IF t.currentLocation \in {"TRAVELING_TO_B1", "TRAVELING_TO_B2"}
    THEN LET b == IF t.currentLocation = "TRAVELING_TO_B1" THEN "B1" ELSE "B2"
         IN  IF t.stage = movingTo(b) /\ ~t.hasBox
             THEN Segment(locationA, locationB(b))
             ELSE IF t.x = locationC.x /\ t.y = locationC.y
             THEN Segment(locationC, locationB(b))
             ELSE Segment(locationB(otherStation(b)), locationB(b))
    ELSE IF t.currentLocation = "TRAVELING_TO_A"
    THEN Segment(locationC, locationA)
    ELSE Still

segment(t) == IF variant = "N" THEN segmentN(t) ELSE segmentTwo(t)

\* totalTime of the interpolation
totalTime(t) ==
    calculateTravelTime(segment(t).from.x, segment(t).from.y,
                        segment(t).to.x, segment(t).to.y)

(* -------------------- the rest of the public interface --------------- *)

\* the delays a caller of the public scheduleEvent may pass
Delays == {-50, 100}

\* the event types of the running engine
EventTypes ==
    IF variant = "N"
    THEN {"TRAVELER_START_JOURNEY", "TRAVELER_ARRIVE_AT_C", "TRAVELER_COLLECT_BOX",
          "TRAVELER_ARRIVE_AT_STATION", "TRAVELER_FINISH_PROCESSING",
          "TRAVELER_ARRIVE_AT_A", "SIMULATION_COMPLETE"}
    ELSE {"TRAVELER_START_JOURNEY", "TRAVELER_ARRIVE_AT_C", "TRAVELER_COLLECT_BOX",
          "TRAVELER_ARRIVE_AT_B1", "TRAVELER_ARRIVE_AT_B2",
          "TRAVELER_FINISH_PROCESSING_B1", "TRAVELER_FINISH_PROCESSING_B2",
          "TRAVELER_ARRIVE_AT_A", "SIMULATION_COMPLETE"}

\* scheduleEvent(delay, type, entityId), called from outside the engine; at
\* most MaxCalls such calls are followed
ScheduleEvent ==
    /\ pc = "idle"
    /\ calls < MaxCalls
    /\ calls' = calls + 1
    /\ \E delay \in Delays, type \in EventTypes, entityId \in 1..MaxTravelers :
         /\ eventQueue' = scheduleEvent(eventQueue, nextEventId, delay, type,
                                        entityId, NoData)
         /\ last' = Observe("scheduleEvent",
                            [id |-> nextEventId, time |-> currentTime + delay,
                             type |-> type, entityId |-> entityId, data |-> NoData],
                            FALSE)
    /\ nextEventId' = nextEventId + 1
    /\ UNCHANGED <<variant, travelers, processingStations, nextId, pc, idleTicks,
                   clockVars, runVars, boxVars, locVars, twoVars, completed, processed, ctxVars>>

\* A run without pause in which the caller also schedules events itself.
NextSchedule ==
    \/ ~hasBeenInitialized /\ AddTraveler
    \/ ~hasBeenInitialized /\ Start
    \/ ScheduleEvent
    \/ Step

SpecSchedule == Init /\ [][NextSchedule]_vars

\* a step() without the isRunning check: the clock moves while stopped
StepStoppedTicks ==
    /\ pc = "idle"
    /\ hasBeenInitialized
    /\ ~isRunning
    /\ calls < MaxCalls + 1
    /\ calls' = calls + 1
    /\ currentTime' = currentTime + TickMs * simulationSpeed
    /\ last' = Observe("step", NoEvent, FALSE)
    /\ UNCHANGED <<variant, eventQueue, nextEventId, travelers, processingStations,
                   nextId, pc, idleTicks, simulationSpeed, runVars, boxVars, locVars,
                   twoVars, completed, processed, ctxVars>>

\* step() called from outside while the engine is stopped: it returns at
\* `if (!this.isRunning) return`.  The call is followed after the first
\* start(), and once beyond the MaxCalls other calls, so that it can come
\* after a stop().
StepStopped ==
    /\ pc = "idle"
    /\ hasBeenInitialized
    /\ ~isRunning
    /\ calls < MaxCalls + 1
    /\ calls' = calls + 1
    /\ last' = Observe("step", NoEvent, FALSE)
    /\ UNCHANGED <<variant, eventQueue, nextEventId, travelers, processingStations,
                   nextId, pc, idleTicks, clockVars, runVars, boxVars, locVars,
                   twoVars, completed, processed, ctxVars>>

\* Pause and resume, with step() also called by hand.
NextPause == Next \/ StepStopped

SpecPause == InitN /\ [][NextPause]_vars

\* claimStation(stationId, travelerId) applied to the station table of a
\* reachable state, for any traveler id and any station id, one that is not
\* in the table included.  The observation keeps the arguments and, as
\* notified, the return value; the run is not followed further.
ClaimStation ==
    /\ pc = "idle"
    /\ pc' = "probed"
    /\ \E k \in 1..(MaxStations + 1), travelerId \in 1..MaxTravelers :
         /\ processingStations' = claimStation(processingStations, StationId(k), travelerId)
         /\ last' = Observe("claimStation",
                            [NoEvent EXCEPT !.entityId = travelerId,
                                            !.data = StationData(StationId(k))],
                            claimSucceeds(processingStations, StationId(k)))
    /\ UNCHANGED <<variant, eventQueue, nextEventId, travelers, nextId, idleTicks,
                   calls, clockVars, runVars, boxVars, locVars, twoVars, completed,
                   processed, ctxVars>>

NextClaim == NextClosed \/ ClaimStation

SpecClaim == InitN /\ [][NextClaim]_vars

\* the station list of the context after station `id` was dragged by dx
draggedStations(st, id, dx) ==
    [k \in 1..Len(st) |-> IF st[k].id = id THEN [st[k] EXCEPT !.x = @ + dx] ELSE st[k]]

\* The context's effect on [locationA, locationC, processingStations]:
\* clearProcessingStations(), addProcessingStation for every station of the
\* context's list, then updateLocations.
syncStations(st) == [k \in 1..Len(st) |-> newStation(st[k].id, st[k].x, st[k].y)]

\* The origin, the collection point or a station is dragged while the
\* application is not simulating (before the run, or paused in the middle of
\* it), and the effect syncs the engine.  Each place is dragged along the
\* line of the layout, away from its place at construction and once.
Relocate ==
    /\ pc = "idle"
    /\ ~isRunning
    /\ \/ /\ locationA = Point(0, 0)
          /\ locationA' = Point(-10, 0)
          /\ processingStations' = syncStations(processingStations)
          /\ UNCHANGED locationC
       \/ /\ locationC = Point(10, 0)
          /\ locationC' = Point(5, 0)
          /\ processingStations' = syncStations(processingStations)
          /\ UNCHANGED locationA
       \/ /\ \E k \in 1..Len(processingStations) :
               /\ processingStations[k].x = 10 + 10 * k
               /\ processingStations' =
                    syncStations(draggedStations(processingStations,
                                                 processingStations[k].id, 5))
          /\ UNCHANGED <<locationA, locationC>>
    /\ last' = Observe("relocate", NoEvent, FALSE)
    /\ UNCHANGED <<variant, eventQueue, nextEventId, travelers, nextId, pc, idleTicks,
                   calls, clockVars, runVars, boxVars, locationB1, locationB2, twoVars,
                   completed, processed, ctxVars>>

\* A run of the N-station engine that the application may pause, relocate
\* and resume.
NextRelocate ==
    \/ ~hasBeenInitialized /\ AddTraveler
    \/ Start
    \/ Stop
    \/ Relocate
    \/ Step

SpecRelocate == InitN /\ [][NextRelocate]_vars

\* updateLocations(locA, locC, locB1, locB2) of the two-station engine, called
\* before the first start with B2 moved away along the line of the layout:
\* the way from B1 to B2 then takes longer than a processing.
UpdateLocations ==
    /\ pc = "idle"
    /\ variant = "Two"
    /\ ~hasBeenInitialized
    /\ locationB2 = Point(30, 0)
    /\ locationB2' = Point(230, 0)
    /\ last' = Observe("updateLocations", NoEvent, FALSE)
    /\ UNCHANGED <<variant, eventQueue, nextEventId, travelers, processingStations,
                   nextId, pc, idleTicks, calls, clockVars, runVars, boxVars,
                   locationA, locationC, locationB1, twoVars, completed, processed, ctxVars>>

\* A run of the two-station engine on the default layout or on the long one.
NextLayout == Next \/ UpdateLocations

SpecLayout == InitTwo /\ [][NextLayout]_vars

\* A closed run of the two-station engine with as many boxes and up to as
\* many travelers as it takes to fill both stations and their queues.
InitCrowd == \E speed \in Speeds : Configured("Two", CrowdSize, 0, speed)

NextCrowd ==
    \/ ~hasBeenInitialized /\ Admit(CrowdSize)
    \/ ~hasBeenInitialized /\ Start
    \/ Step

SpecCrowd == InitCrowd /\ [][NextCrowd]_vars

\* the counts the box stepper of the controls can set next: one less, not
\* below 1, or one more, not above the largest count followed here
nextBoxCounts == {Max2(1, maxBoxes - 1), IF maxBoxes < MaxBoxes THEN maxBoxes + 1 ELSE maxBoxes}

\* setMaxBoxes(count), called as the application calls it: while the run is
\* not going on, also when it is paused half way.  The call is not counted in
\* calls: a pause may be followed by any number of them.  The caller,
\* setStartingBoxes, shows the new count as the boxes available.
SetMaxBoxes ==
    /\ pc = "idle"
    /\ ~isRunning
    /\ \E count \in nextBoxCounts \ {maxBoxes} :
         /\ maxBoxes' = count
         /\ availableBoxes' = count
         /\ boxStatus' = [boxStatus EXCEPT !.availableBoxes = count]
    /\ last' = Observe("setMaxBoxes", NoEvent, FALSE)
    /\ UNCHANGED <<variant, eventQueue, nextEventId, travelers, processingStations,
                   nextId, pc, idleTicks, calls, clockVars, runVars,
                   totalBoxesProcessed, locVars, twoVars, completed, processed, people>>

\* a station reset that keeps the claimant
resetStationKeepsClaim(s) ==
    [s EXCEPT !.state = "available", !.currentProcessingTraveler = Null, !.queue = <<>>]

\* reset(): what the loop over the stations does to station s
resetStation(s) ==
    [s EXCEPT !.state = "available", !.currentProcessingTraveler = Null,
              !.claimedByTraveler = Null, !.queue = <<>>]

\* reset(), followed by the caller's restart of its id counter; the
\* observation keeps the first of the events the call discards
ResetEngine ==
    /\ isRunning' = FALSE
    /\ intervalId' = FALSE
    /\ eventQueue' = <<>>
    /\ travelers' = <<>>
    /\ processingStations' =
         [k \in 1..Len(processingStations) |-> resetStation(processingStations[k])]
    /\ processingQueueB1' = <<>>
    /\ processingQueueB2' = <<>>
    /\ currentProcessingTravelerB1' = Null
    /\ currentProcessingTravelerB2' = Null
    /\ availableBoxes' = maxBoxes
    /\ totalBoxesProcessed' = 0
    /\ currentTime' = 0
    /\ nextEventId' = 1
    /\ hasBeenInitialized' = FALSE
    /\ nextId' = 1
    /\ idleTicks' = 0
    /\ last' = Observe("reset", IF eventQueue = <<>> THEN NoEvent ELSE Head(eventQueue),
                       FALSE)
    /\ completed' = FALSE
    /\ processed' = {}
    /\ UNCHANGED <<variant, pc, simulationSpeed, maxBoxes, locVars>>

Reset == Called /\ ResetEngine /\ UNCHANGED ctxVars

(* -------------------------- SimulationContext ------------------------- *)

\* one coordinate of `start + (target - start) * Math.min(elapsed / totalTime, 1)`
\* (whole numbers on the layouts followed here)
interpolated(from, to, elapsed, total) ==
    from + ((to - from) * (IF elapsed < total THEN elapsed ELSE total)) \div total

\* currentState of getTravelerStates for traveler record t: a copy of the
\* record, with the interpolated position while t travels
currentState(t) ==
    IF segment(t).moves
    THEN [t EXCEPT !.x = interpolated(segment(t).from.x, segment(t).to.x,
                                      currentTime - t.currentSegmentStartTime,
                                      totalTime(t)),
                   !.y = interpolated(segment(t).from.y, segment(t).to.y,
                                      currentTime - t.currentSegmentStartTime,
                                      totalTime(t))]
    ELSE t

\* getTravelerStates(): the states pushed, by traveler id
getTravelerStates == [i \in listedIds |-> currentState(travelers[i])]

\* a getTravelerStates that interpolates on the records of the registry
\* themselves (`currentState = traveler`)
registryAfterSnapshotAliased ==
    [i \in DOMAIN travelers |->
        IF travelers[i].isActive THEN currentState(travelers[i]) ELSE travelers[i]]

\* the registry after getTravelerStates(): `{ ...traveler }` copies each
\* record, so the registry is as before
registryAfterSnapshot == travelers

getBoxStatus == [availableBoxes |-> availableBoxes, totalProcessed |-> totalBoxesProcessed]

\* The callback of the context's polling timer: setSimulationTime,
\* setPeople(getTravelerStates()), setBoxStatus(getBoxStatus()).  The
\* context arms updateIntervalRef right after engine.start() and clears it
\* wherever the engine's timer is cleared (stopSimulation, the
\* SIMULATION_COMPLETE handler), so it is armed exactly while intervalId is.
Poll ==
    /\ pc = "idle"
    /\ intervalId
    /\ people' = getTravelerStates
    /\ boxStatus' = getBoxStatus
    /\ travelers' = registryAfterSnapshot
    /\ last' = Observe("poll", NoEvent, FALSE)
    /\ UNCHANGED <<variant, eventQueue, nextEventId, processingStations, nextId, pc,
                   idleTicks, calls, clockVars, runVars, boxVars, locVars, twoVars,
                   completed, processed>>

\* the registry, the queue and the two counters after k more addTraveler
\* calls with the ids nextIdRef hands out
RECURSIVE spawned(_, _)
spawned(r, k) ==
    IF k = 0 THEN r
    ELSE spawned([trav |-> setTraveler(r.trav, r.id, newTraveler(r.id)),
                  q    |-> IF availableBoxes > 0
                           THEN scheduleEvent(r.q, r.eid, MinDelay,
                                              "TRAVELER_START_JOURNEY", r.id, NoData)
                           ELSE r.q,
                  eid  |-> IF availableBoxes > 0 THEN r.eid + 1 ELSE r.eid,
                  id   |-> r.id + 1], k - 1)

\* a startSimulation that spawns the initial travelers on every start
startingTravelersOnEveryStart == 1..(MaxTravelers + 1 - nextId)

\* the numbers of initial travelers the first start may spawn; a later start
\* spawns none
startingTravelers ==
    IF hasBeenInitialized THEN {0} ELSE 1..(MaxTravelers + 1 - nextId)

\* startSimulation(): spawn the initial travelers unless the engine has been
\* initialized, start the engine and arm the polling timer.  The observation
\* keeps the number of travelers spawned and the call this start follows.
StartSimulation ==
    /\ pc = "idle"
    /\ ~isRunning
    /\ \E n \in startingTravelers :
       \E r \in {spawned([trav |-> travelers, q |-> eventQueue, eid |-> nextEventId,
                          id |-> nextId], n)} :
           /\ travelers' = r.trav
           /\ eventQueue' = r.q
           /\ nextEventId' = r.eid
           /\ nextId' = r.id
           /\ last' = Observe("startSimulation",
                              [NoEvent EXCEPT !.entityId = n, !.type = last.op], FALSE)
    /\ isRunning' = TRUE
    /\ hasBeenInitialized' = TRUE
    /\ intervalId' = TRUE
    /\ UNCHANGED <<variant, processingStations, pc, idleTicks, calls, clockVars,
                   boxVars, locVars, twoVars, completed, processed, ctxVars>>

\* the context's addTraveler(): addTraveler(nextIdRef.current++), then
\* setPeople(getTravelerStates())
AddTravelerAndPublish ==
    /\ AdmitEngine(MaxTravelers)
    /\ people' = getTravelerStates'
    /\ UNCHANGED boxStatus

\* resetSimulation(): stopSimulation, reset(), setPeople([]), setBoxStatus,
\* nextIdRef.current = 1.  What follows a reset is a new run.
ResetSimulation ==
    /\ pc = "idle"
    /\ calls' = 0
    /\ ResetEngine
    /\ people' = <<>>
    /\ boxStatus' = [availableBoxes |-> maxBoxes, totalProcessed |-> 0]

\* The application on the N-station engine: every call goes through the
\* context, and the polling timer runs beside the engine's.
NextContext ==
    \/ AddTravelerAndPublish
    \/ StartSimulation
    \/ Stop
    \/ ResetSimulation
    \/ Poll
    \/ Step

SpecContext == InitN /\ [][NextContext]_vars

\* The calls the application makes: those of Next, the box stepper and reset.
NextApp == Next \/ SetMaxBoxes \/ Reset

SpecApp == Init /\ [][NextApp]_vars

(* ------------------------------- claims ------------------------------- *)

registered == DOMAIN travelers

\* the travelers of the registry with hasBox = true
holders == {i \in registered : travelers[i].hasBox}

atStage(stage) == {i \in registered : travelers[i].stage = stage}

\* C1: N-station engine: availableBoxes + the number of registered travelers
\* holding a box + totalBoxesProcessed equals the configured box count in
\* every state reached by processing events.
C1_Conservation ==
    variant = "N" =>
        availableBoxes + Cardinality(holders) + totalBoxesProcessed = maxBoxes

\* C2: N-station engine: every station has at most one claimant-or-occupant
\* and at most one traveler moving to it or processing at it.
C2_SingleOccupancy ==
    variant = "N" =>
        \A k \in 1..Len(processingStations) :
            LET s == processingStations[k] IN
            /\ Cardinality({s.claimedByTraveler, s.currentProcessingTraveler} \ {Null}) <= 1
            /\ Cardinality(atStage(movingTo(s.id)) \cup atStage(processingAt(s.id))) <= 1

\* C3: N-station engine, travelers admitted before start and no call
\* afterwards: the run ends with every box processed, the registry empty and
\* SIMULATION_COMPLETE processed.  Once the event queue of such a run is
\* empty nothing further happens, so the run ends as claimed exactly if every
\* state with an empty queue is such an end.
C3_RunEndsComplete ==
    (variant = "N" /\ hasBeenInitialized /\ nextId > 1 /\ pc = "idle"
        /\ eventQueue = <<>>)
    => (totalBoxesProcessed = maxBoxes /\ registered = {} /\ completed)

C5_OneProcessingPerStation ==
    variant = "Two" =>
        /\ Cardinality(atStage("processingAtB1")) <= 1
        /\ Cardinality(atStage("processingAtB2")) <= 1

C7_WaitersServedAndRunEnds ==
    /\ \A i \in 1..MaxTravelers, b \in {"B1", "B2"} :
         (i \in atStage("waitingAt" \o b)) ~> (i \in atStage(processingAt(b)))
    /\ (hasBeenInitialized /\ registered # {})
         ~> (totalBoxesProcessed = maxBoxes /\ registered = {} /\ completed)

\* a run in which a traveler waited in a queue has completed
C7_Witness ==
    /\ variant = "Two"
    /\ completed
    /\ totalBoxesProcessed = maxBoxes
    /\ registered = {}
    /\ nextId > 3
    /\ maxBoxes >= 3

\* C8: the clock never decreases, and an event is handed to processEvent
\* only with time <= currentTime.
C8_MonotonicTime ==
    [][/\ currentTime' >= currentTime
       /\ last'.op = "processEvent" => last'.event.time <= currentTime']_vars

\* an event is processed at a clock value beyond its time, after a speed change
C8_Witness ==
    /\ last.op = "processEvent"
    /\ last.event.time < currentTime
    /\ calls > 0

\* C9: the event queue is sorted by time, and events with equal time stand in
\* the order in which they were scheduled (ascending event id).
C9_QueueOrder ==
    \A i, j \in 1..Len(eventQueue) :
        i < j => /\ eventQueue[i].time <= eventQueue[j].time
                 /\ eventQueue[i].time = eventQueue[j].time
                      => eventQueue[i].id < eventQueue[j].id

\* the queue holds two events with equal time, and an event scheduled later
\* stands before one scheduled earlier
C9_Witness ==
    /\ \E i, j \in 1..Len(eventQueue) :
         i < j /\ eventQueue[i].time = eventQueue[j].time
    /\ \E i, j \in 1..Len(eventQueue) :
         i < j /\ eventQueue[i].id > eventQueue[j].id

\* C10: no event is handed to processEvent twice, and once the timer is
\* firing every event scheduled so far is eventually handed to it: the run
\* reaches a state in which every event id handed out has been processed.
C10_ExactlyOnce ==
    /\ [][last'.op = "processEvent" => last'.event.id \notin processed]_vars
    /\ (intervalId /\ isRunning) ~> (processed = 1..(nextEventId - 1))

\* a run with two travelers has processed every event it scheduled, the
\* last of them some ticks after it was due
C10_Witness ==
    /\ variant = "N"
    /\ nextId > 2
    /\ nextEventId > 10
    /\ eventQueue = <<>>
    /\ processed = 1..(nextEventId - 1)

\* C11: scheduleEvent accepts every request, and the event it inserts never
\* has a time before currentTime (a negative delay counts as zero).
C11_NegativeDelayClamped ==
    last.op = "scheduleEvent" =>
        /\ \E k \in 1..Len(eventQueue) : eventQueue[k] = last.event
        /\ last.event.time >= currentTime

\* C12: availableBoxes stays within 0..maxBoxes, and totalBoxesProcessed
\* never exceeds maxBoxes and never decreases (reset apart, which starts a
\* new run).
C12_BoxBounds ==
    [][/\ 0 <= availableBoxes'
       /\ availableBoxes' <= maxBoxes'
       /\ totalBoxesProcessed' <= maxBoxes'
       /\ last'.op # "reset" => totalBoxesProcessed' >= totalBoxesProcessed]_vars

\* C13: N-station engine: a registered traveler has hasBox set only while its
\* stage is movingTo<S> or processingAt<S> for a station S.
C13_HasBoxOnlyInTransit ==
    variant = "N" =>
        \A i \in holders :
            \E k \in 1..Len(processingStations) :
                travelers[i].stage \in {movingTo(processingStations[k].id),
                                        processingAt(processingStations[k].id)}

\* the ids handed out in this run that are no longer registered
removedIds == (1..(nextId - 1)) \ registered

\* C14: a traveler removed at ARRIVE_AT_A is gone from the registry and from
\* getTravelerStates and stays gone (ids are not reused within a run), and an
\* event popped for its id changes no traveler, station or box state and
\* schedules nothing.
C14_RemovedStaysRemoved ==
    [][/\ (last'.op = "processEvent" /\ last'.event.type = "TRAVELER_ARRIVE_AT_A"
            /\ last'.notified)
          => last'.event.entityId \notin registered' \cup listedIds'
       /\ last'.op # "reset"
          => removedIds \cap (registered' \cup listedIds') = {}
       /\ (last'.op = "processEvent" /\ last'.event.entityId \in removedIds)
          => /\ travelers' = travelers
             /\ processingStations' = processingStations
             /\ twoVars' = twoVars
             /\ boxVars' = boxVars
             /\ eventQueue' = Tail(eventQueue)
             /\ nextEventId' = nextEventId]_vars

\* a FINISH_PROCESSING event scheduled for a traveler after its removal has
\* been popped while another traveler is still under way
C14_Witness ==
    /\ variant = "N"
    /\ last.op = "processEvent"
    /\ last.event.type = "TRAVELER_FINISH_PROCESSING"
    /\ last.event.entityId \in removedIds
    /\ registered # {}

\* C15: after reset() the event queue and the registry are empty,
\* availableBoxes = maxBoxes, totalBoxesProcessed = 0, currentTime = 0,
\* isRunning is false and every station is available with no claimant,
\* occupant or queued traveler.
C15_ResetClearsRun ==
    last.op = "reset" =>
        /\ eventQueue = <<>>
        /\ registered = {}
        /\ availableBoxes = maxBoxes
        /\ totalBoxesProcessed = 0
        /\ currentTime = 0
        /\ ~isRunning
        /\ ~intervalId
        /\ \A k \in 1..Len(processingStations) :
             LET st == processingStations[k] IN
             /\ st.state = "available"
             /\ st.claimedByTraveler = Null
             /\ st.currentProcessingTraveler = Null
             /\ st.queue = <<>>
        /\ processingQueueB1 = <<>> /\ processingQueueB2 = <<>>
        /\ currentProcessingTravelerB1 = Null /\ currentProcessingTravelerB2 = Null

\* reset() was called in the middle of a run, while a traveler was processing
\* at a station
C15_Witness ==
    /\ variant = "N"
    /\ last.op = "reset"
    /\ calls > 0
    /\ last.event.type = "TRAVELER_FINISH_PROCESSING"

\* the state a pause must preserve: queue, clock, travelers, stations, boxes
pausedState == <<eventQueue, nextEventId, currentTime, travelers, processingStations,
                 availableBoxes, totalBoxesProcessed, maxBoxes>>

\* C16: stop() changes only isRunning and the timer handle, step() while
\* stopped changes nothing, and start() resumes from the state stop() left.
C16_PauseKeepsState ==
    [][/\ last'.op = "stop"
          => pausedState' = pausedState /\ ~isRunning' /\ ~intervalId'
       /\ last'.op = "step"
          => pausedState' = pausedState /\ runVars' = runVars
       /\ last'.op = "start"
          => pausedState' = pausedState /\ isRunning' /\ intervalId']_vars

\* the run was paused with events pending, step() was called by hand, and the
\* resumed run went on to process a box
C16_Witness ==
    /\ calls = MaxCalls + 1
    /\ isRunning
    /\ ~completed
    /\ last.op = "processEvent"
    /\ last.event.type = "TRAVELER_FINISH_PROCESSING"

\* C17: claimStation returns true only for a station whose state is
\* 'available', and then the station is 'claimed' by the traveler; when it
\* returns false (station missing or not available) the table is unchanged.
C17_ClaimContract ==
    [][last'.op = "claimStation" =>
        LET i == stationIndex(processingStations, last'.event.data.stationId) IN
        /\ last'.notified
             => /\ i # 0
                /\ processingStations[i].state = "available"
                /\ processingStations'[i].state = "claimed"
                /\ processingStations'[i].claimedByTraveler = last'.event.entityId
        /\ ~last'.notified
             => /\ i = 0 \/ processingStations[i].state # "available"
                /\ processingStations' = processingStations]_vars

\* claimStation was refused on a station that another traveler occupies
C17_Witness ==
    /\ last.op = "claimStation"
    /\ ~last.notified
    /\ \E k \in 1..Len(processingStations) :
         /\ processingStations[k].id = last.event.data.stationId
         /\ processingStations[k].state = "active"
         /\ processingStations[k].currentProcessingTraveler # last.event.entityId

\* a SIMULATION_COMPLETE event is in the queue
completePending ==
    \E k \in 1..Len(eventQueue) : eventQueue[k].type = "SIMULATION_COMPLETE"

\* C18: a SIMULATION_COMPLETE event is scheduled only in a state with
\* totalBoxesProcessed >= maxBoxes and an empty registry, and only if none was
\* scheduled since the last reset, whether still pending or already processed.
C18_OneCompletionPerRun ==
    [][(\E k \in 1..Len(eventQueue') :
           /\ eventQueue'[k].type = "SIMULATION_COMPLETE"
           /\ eventQueue'[k].id >= nextEventId)
       => /\ totalBoxesProcessed' >= maxBoxes'
          /\ DOMAIN travelers' = {}
          /\ ~completePending
          /\ ~completed]_vars

\* the travelers some station names as its claimant or its occupant
stationUsers ==
    {processingStations[k].claimedByTraveler : k \in 1..Len(processingStations)}
        \cup {processingStations[k].currentProcessingTraveler :
                 k \in 1..Len(processingStations)}

\* C19: N-station engine: no registered traveler with hasBox = false is the
\* claimant or the occupant of a station, and a traveler whose COLLECT_BOX
\* finds no box left is sent back to the origin, without a box and with
\* every station left as it was.
C19_NoBoxNoStation ==
    [][variant = "N" =>
        /\ \A i \in DOMAIN travelers' :
             ~travelers'[i].hasBox => i \notin stationUsers'
        /\ (/\ last'.op = "processEvent"
            /\ last'.event.type = "TRAVELER_COLLECT_BOX"
            /\ last'.event.id \notin processed
            /\ last'.event.entityId \in registered
            /\ availableBoxes = 0)
           => LET id == last'.event.entityId IN
              /\ travelers'[id].stage = "returningToA"
              /\ ~travelers'[id].hasBox
              /\ processingStations' = processingStations
              /\ availableBoxes' = 0
              /\ \E k \in 1..Len(eventQueue') :
                   /\ eventQueue'[k].id = nextEventId
                   /\ eventQueue'[k].type = "TRAVELER_ARRIVE_AT_A"
                   /\ eventQueue'[k].entityId = id]_vars

\* a traveler that never had a box found none at C and is on its way back,
\* while another traveler occupies a station
C19_Witness ==
    /\ variant = "N"
    /\ last.op = "processEvent"
    /\ last.event.type = "TRAVELER_COLLECT_BOX"
    /\ last.event.entityId \in registered
    /\ LET t == travelers[last.event.entityId] IN
         /\ t.stage = "returningToA"
         /\ ~t.hasBox
         /\ t.boxesProcessed = 0
    /\ availableBoxes = 0
    /\ \E k \in 1..Len(processingStations) :
         /\ processingStations[k].state = "active"
         /\ processingStations[k].currentProcessingTraveler \in holders

\* C20: every traveler admitted with addTraveler, at any point of the run and
\* also while availableBoxes is 0, is eventually removed from the registry
\* (after ARRIVE_AT_A) as long as the driver keeps ticking.  A run that
\* refutes it is finite: once the engine is running between two steps with
\* nothing scheduled, the timer changes only the clock, so by then every
\* admitted traveler must have been removed.
C20_AdmittedEventuallyRemoved ==
    (isRunning /\ intervalId /\ pc = "idle" /\ eventQueue = <<>>) => registered = {}

\* C21: whenever an event is processed for a traveler that is registered
\* and active, control reaches the notification at the end of processEvent,
\* so the handler registered for the event's type is invoked, on the
\* branches that send the traveler back to the origin too.
C21_HandlerInvoked ==
    [][(/\ last'.op = "processEvent"
        /\ last'.event.id \notin processed
        /\ last'.event.entityId \in registered
        /\ travelers[last'.event.entityId].isActive)
       => last'.notified]_vars

stationUse(s) == <<s.id, s.state, s.claimedByTraveler, s.currentProcessingTraveler>>

\* C23: relocating the origin, the collection point or a station while the
\* engine is paused changes coordinates only: every station has the state,
\* the claimant and the occupant it had before; and a traveler that arrives
\* at the station it was moving to is that station's claimant.
C23_RelocationKeepsClaims ==
    [][/\ last'.op = "relocate"
          => /\ Len(processingStations') = Len(processingStations)
             /\ \A k \in 1..Len(processingStations) :
                  stationUse(processingStations'[k]) = stationUse(processingStations[k])
       /\ (/\ last'.op = "processEvent"
           /\ last'.event.type = "TRAVELER_ARRIVE_AT_STATION"
           /\ last'.event.id \notin processed
           /\ last'.event.entityId \in registered)
          => \E k \in 1..Len(processingStations) :
                /\ processingStations[k].id = last'.event.data.stationId
                /\ processingStations[k].claimedByTraveler = last'.event.entityId]_vars

\* the stage changes C24 allows for a registered traveler
stageEdge(from, to) ==
    \/ from = "idle" /\ to \in {"movingToC", "returningToA"}
    \/ from \in {"movingToC", "returningToC"} /\ to \in {"collectingAtC", "returningToA"}
    \/ /\ from = "collectingAtC"
       /\ \/ to = "returningToA"
          \/ \E k \in 1..Len(processingStations) : to = movingTo(processingStations[k].id)
    \/ \E k \in 1..Len(processingStations) :
          \/ /\ from = movingTo(processingStations[k].id)
             /\ to \in {processingAt(processingStations[k].id), "returningToA"}
          \/ /\ from = processingAt(processingStations[k].id)
             /\ to \in {"returningToC", "returningToA"}

\* the events of one cycle origin -> collection -> station -> origin, in the
\* order of their ids
CycleA ==
    <<"TRAVELER_START_JOURNEY", "TRAVELER_ARRIVE_AT_C", "TRAVELER_COLLECT_BOX",
      "TRAVELER_ARRIVE_AT_STATION", "TRAVELER_FINISH_PROCESSING", "TRAVELER_ARRIVE_AT_A",
      "SIMULATION_COMPLETE">>

\* one traveler was admitted to an engine with one box and one station
scenarioA == variant = "N" /\ maxBoxes = 1 /\ Len(processingStations) = 1 /\ nextId = 2

C25_ClaimBecomesActive ==
    [][(variant = "N" /\ last'.op # "reset")
       => /\ Len(processingStations') = Len(processingStations)
          /\ \A k \in 1..Len(processingStations) :
               LET s  == processingStations[k]
                   s2 == processingStations'[k]
               IN  /\ s.state = "claimed"
                      => \/ /\ s2.state = "claimed"
                            /\ s2.claimedByTraveler = s.claimedByTraveler
                         \/ /\ s2.state = "active"
                            /\ s2.currentProcessingTraveler = s.claimedByTraveler
                   /\ s.state = "active"
                      => \/ /\ s2.state = "active"
                            /\ s2.currentProcessingTraveler = s.currentProcessingTraveler
                         \/ s2.state = "available"]_vars

\* the events scheduled by the step: those of the next queue with a fresh id
scheduledNow == {eventQueue'[k] : k \in {j \in 1..Len(eventQueue') :
                                          eventQueue'[j].id >= nextEventId}}

\* C26: N-station engine: TRAVELER_ARRIVE_AT_STATION for a traveler that is
\* not the station's claimant leaves the station's state, claimant and
\* occupant as they were, sets the traveler's stage to returningToA and
\* schedules exactly one TRAVELER_ARRIVE_AT_A for it; for the claimant the
\* station becomes 'active' and exactly one TRAVELER_FINISH_PROCESSING is
\* scheduled processingDuration later.
C26_ArrivalVerifiesClaim ==
    [][(/\ variant = "N"
        /\ last'.op = "processEvent"
        /\ last'.event.type = "TRAVELER_ARRIVE_AT_STATION"
        /\ last'.event.id \notin processed
        /\ last'.event.entityId \in registered
        /\ stationIndex(processingStations, last'.event.data.stationId) # 0)
       => LET id == last'.event.entityId
              i  == stationIndex(processingStations, last'.event.data.stationId)
              s  == processingStations[i]
          IN  /\ Cardinality(scheduledNow) = 1
              /\ nextEventId' = nextEventId + 1
              /\ \A e \in scheduledNow : e.entityId = id
              /\ IF s.claimedByTraveler # id
                 THEN /\ processingStations' = processingStations
                      /\ travelers'[id].stage = "returningToA"
                      /\ \A e \in scheduledNow : e.type = "TRAVELER_ARRIVE_AT_A"
                 ELSE /\ processingStations'[i].state = "active"
                      /\ processingStations'[i].currentProcessingTraveler = id
                      /\ travelers'[id].stage = processingAt(s.id)
                      /\ \A e \in scheduledNow :
                           /\ e.type = "TRAVELER_FINISH_PROCESSING"
                           /\ e.time = currentTime + processingDuration]_vars

\* a traveler has arrived at a station that another traveler has claimed in
\* the meantime, and was sent back
C26_Witness ==
    /\ variant = "N"
    /\ last.op = "processEvent"
    /\ last.event.type = "TRAVELER_ARRIVE_AT_STATION"
    /\ last.event.entityId \in registered
    /\ travelers[last.event.entityId].stage = "returningToA"
    /\ \E k \in 1..Len(processingStations) :
         /\ processingStations[k].id = last.event.data.stationId
         /\ processingStations[k].claimedByTraveler \in
              registered \ {last.event.entityId}

\* C27: N-station engine: TRAVELER_FINISH_PROCESSING adds one to
\* totalBoxesProcessed, clears the traveler's hasBox, leaves the station
\* 'available' without claimant or occupant, and sends the traveler to
\* returningToA if totalBoxesProcessed has reached maxBoxes and to returningToC
\* otherwise.
C27_FinishReleasesAndRoutes ==
    [][(/\ variant = "N"
        /\ last'.op = "processEvent"
        /\ last'.event.type = "TRAVELER_FINISH_PROCESSING"
        /\ last'.event.id \notin processed
        /\ last'.event.entityId \in registered
        /\ stationIndex(processingStations, last'.event.data.stationId) # 0)
       => LET id == last'.event.entityId
              i  == stationIndex(processingStations, last'.event.data.stationId)
          IN  /\ totalBoxesProcessed' = totalBoxesProcessed + 1
              /\ ~travelers'[id].hasBox
              /\ processingStations'[i].state = "available"
              /\ processingStations'[i].claimedByTraveler = Null
              /\ processingStations'[i].currentProcessingTraveler = Null
              /\ travelers'[id].stage =
                   IF totalBoxesProcessed' >= maxBoxes' THEN "returningToA"
                                                       ELSE "returningToC"]_vars

\* a traveler has finished a box that is not the last one while no box is
\* left at the collection point, and is returning there
C27_Witness ==
    /\ variant = "N"
    /\ last.op = "processEvent"
    /\ last.event.type = "TRAVELER_FINISH_PROCESSING"
    /\ last.event.entityId \in registered
    /\ travelers[last.event.entityId].stage = "returningToC"
    /\ totalBoxesProcessed < maxBoxes
    /\ availableBoxes = 0

C29_SwitchOnlyFromC ==
    [][(/\ variant = "Two"
        /\ last'.op = "processEvent"
        /\ last'.event.type \in {"TRAVELER_ARRIVE_AT_B1", "TRAVELER_ARRIVE_AT_B2"}
        /\ last'.event.id \notin processed
        /\ last'.event.entityId \in registered
        /\ travelers[last'.event.entityId].isActive
        /\ travelers'[last'.event.entityId].stage =
             movingTo(otherStation(IF last'.event.type = "TRAVELER_ARRIVE_AT_B1"
                                   THEN "B1" ELSE "B2")))
       => /\ travelers[last'.event.entityId].x = locationC.x
          /\ travelers[last'.event.entityId].y = locationC.y]_vars

ArrivalTypes ==
    {"TRAVELER_ARRIVE_AT_C", "TRAVELER_ARRIVE_AT_STATION", "TRAVELER_ARRIVE_AT_A",
     "TRAVELER_ARRIVE_AT_B1", "TRAVELER_ARRIVE_AT_B2"}

\* C31: for every traveler in a traveling stage the start point that
\* getTravelerStates interpolates from is the point the traveler departed
\* from on its current segment, the one the travel time of its pending
\* arrival was computed from: when an arrival is scheduled for a traveler,
\* the travel time from the start point to the end point of the
\* interpolation is the delay of that arrival.
C31_InterpolationStart ==
    [][last'.op = "processEvent" =>
        \A e \in scheduledNow :
            (/\ e.type \in ArrivalTypes
             /\ e.entityId \in listedIds'
             /\ segment(travelers[e.entityId])'.moves)
            => totalTime(travelers[e.entityId])' = e.time - currentTime]_vars

\* the travelers of the registry in stage movingTo<S> and processingAt<S>
moversTo(s) == {i \in registered : travelers[i].stage = movingTo(s.id)}

processorsAt(s) == {i \in registered : travelers[i].stage = processingAt(s.id)}

\* C33: N-station engine: the station table and the traveler stages agree:
\* a station is 'claimed' exactly when one traveler is in stage movingTo<S>
\* and is its claimant, 'active' exactly when one traveler is in stage
\* processingAt<S> and is its occupant, 'available' exactly when no traveler
\* moves to it or processes at it; no traveler approaches a station without
\* holding its claim.
C33_StationsAgreeWithStages ==
    variant = "N" =>
        \A k \in 1..Len(processingStations) :
            LET s == processingStations[k]
            IN  /\ s.state = "claimed"
                     <=> (moversTo(s) # {} /\ moversTo(s) = {s.claimedByTraveler})
                /\ s.state = "active"
                     <=> (processorsAt(s) # {}
                          /\ processorsAt(s) = {s.currentProcessingTraveler})
                /\ s.state = "available" <=> (moversTo(s) = {} /\ processorsAt(s) = {})
                /\ \A i \in moversTo(s) : s.claimedByTraveler = i

\* the positions of the queue that hold an event of traveler id
pendingOf(id) == {k \in 1..Len(eventQueue) :
                    /\ eventQueue[k].entityId = id
                    /\ eventQueue[k].type # "SIMULATION_COMPLETE"}

\* C34: N-station engine: each traveler of the registry has exactly one
\* pending event in the queue, and no pending traveler event refers to an id
\* that is absent from the registry.
C34_OnePendingEventEach ==
    variant = "N" =>
        /\ \A i \in registered : Cardinality(pendingOf(i)) = 1
        /\ \A k \in 1..Len(eventQueue) :
             eventQueue[k].type # "SIMULATION_COMPLETE"
                => eventQueue[k].entityId \in registered

\* processingQueue<b> and currentProcessingTraveler<b> of the engine
queueOf(b) == IF b = "B1" THEN processingQueueB1 ELSE processingQueueB2

occupantOf(b) ==
    IF b = "B1" THEN currentProcessingTravelerB1 ELSE currentProcessingTravelerB2

\* C35: two-station engine: for each station the travelers in stage
\* waitingAtBx are exactly the members of the station's queue, each once;
\* the queue is non-empty only while the station has a processing traveler;
\* travelers join at the tail and a FINISH_PROCESSING promotes the head, so
\* waiting travelers start processing in the order in which they joined.
C35_QueueIsFifoOfWaiters ==
    /\ [](variant = "Two" =>
            \A b \in {"B1", "B2"} :
                /\ {queueOf(b)[k] : k \in 1..Len(queueOf(b))} = atStage("waitingAt" \o b)
                /\ Cardinality(atStage("waitingAt" \o b)) = Len(queueOf(b))
                /\ queueOf(b) # <<>> => occupantOf(b) # Null)
    /\ [][(variant = "Two" /\ last'.op = "processEvent") =>
            \A b \in {"B1", "B2"} :
                \/ queueOf(b)' = queueOf(b)
                \/ /\ last'.event.type = "TRAVELER_ARRIVE_AT_" \o b
                   /\ queueOf(b)' = Append(queueOf(b), last'.event.entityId)
                \/ /\ last'.event.type = "TRAVELER_FINISH_PROCESSING_" \o b
                   /\ queueOf(b) # <<>>
                   /\ queueOf(b)' = Tail(queueOf(b))
                   /\ occupantOf(b)' = Head(queueOf(b))
                   /\ travelers'[Head(queueOf(b))].stage = processingAt(b)]_vars

\* a station with two travelers in its queue, the first of which is then
\* promoted while the second stays
C35_Witness ==
    /\ variant = "Two"
    /\ last.op = "processEvent"
    /\ last.event.type = "TRAVELER_FINISH_PROCESSING_B1"
    /\ Len(processingQueueB1) >= 1
    /\ currentProcessingTravelerB1 # Null
    /\ currentProcessingTravelerB1 # last.event.entityId
    /\ travelers[currentProcessingTravelerB1].stage = "processingAtB1"

\* the number of queued events that are due
dueCount == Cardinality({k \in 1..Len(eventQueue) : eventQueue[k].time <= currentTime})

\* C36: every follow-up event scheduled while an event is processed has a
\* time strictly greater than the current virtual time (every delay is at
\* least 100), so it is not processed in the drain that scheduled it, and
\* the drain of a step processes finitely many events: the clock stands
\* still during the drain and each processed event leaves one due event
\* less in the queue.
C36_FollowUpsAreLater ==
    [][last'.op = "processEvent" =>
        /\ \A e \in scheduledNow : e.time >= currentTime + MinDelay
        /\ currentTime' = currentTime
        /\ dueCount' = dueCount - 1]_vars

\* a traveler without a box has been sent from the origin to the origin: the
\* distance is 0 and the arrival is scheduled 100 later
C36_Witness ==
    /\ last.op = "processEvent"
    /\ last.event.type = "TRAVELER_START_JOURNEY"
    /\ last.event.entityId \in registered
    /\ travelers[last.event.entityId].stage = "returningToA"
    /\ travelers[last.event.entityId].x = locationA.x
    /\ \E k \in 1..Len(eventQueue) :
         /\ eventQueue[k].entityId = last.event.entityId
         /\ eventQueue[k].type = "TRAVELER_ARRIVE_AT_A"
         /\ eventQueue[k].time = currentTime + MinDelay

\* C37: N-station engine: whenever selectTargetStation returns a station
\* during COLLECT_BOX the claimStation call that follows succeeds: the
\* branch that puts the box back and schedules TRAVELER_COLLECT_BOX again is
\* never taken.
C37_SelectedStationIsClaimed ==
    [][(/\ variant = "N"
        /\ last'.op = "processEvent"
        /\ last'.event.type = "TRAVELER_COLLECT_BOX"
        /\ last'.event.id \notin processed
        /\ last'.event.entityId \in registered
        /\ travelers[last'.event.entityId].isActive
        /\ availableBoxes > 0
        /\ selectTargetStation(processingStations) # "")
       => LET id == last'.event.entityId
              i  == stationIndex(processingStations,
                                 selectTargetStation(processingStations))
          IN  /\ processingStations'[i].state = "claimed"
              /\ processingStations'[i].claimedByTraveler = id
              /\ travelers'[id].hasBox
              /\ travelers'[id].stage = movingTo(processingStations[i].id)
              /\ availableBoxes' = availableBoxes - 1
              /\ \A e \in scheduledNow : e.type = "TRAVELER_ARRIVE_AT_STATION"]_vars

\* a traveler has collected a box while the first station was taken and has
\* claimed the second
C37_Witness ==
    /\ variant = "N"
    /\ last.op = "processEvent"
    /\ last.event.type = "TRAVELER_COLLECT_BOX"
    /\ Len(processingStations) = 2
    /\ processingStations[1].state = "claimed"
    /\ processingStations[1].claimedByTraveler # last.event.entityId
    /\ processingStations[2].state = "claimed"
    /\ processingStations[2].claimedByTraveler = last.event.entityId

\* C38: in the step in which SIMULATION_COMPLETE is processed currentTime is
\* not advanced, in both engine variants: the virtual time read after
\* completion is the virtual time at which SIMULATION_COMPLETE was
\* processed.
C38_ClockStopsAtCompletion ==
    [][(/\ pc = "draining"
        /\ last.op = "processEvent"
        /\ last.event.type = "SIMULATION_COMPLETE"
        /\ last'.op = "advance")
       => currentTime' = currentTime]_vars


\* C32: getTravelerStates is read-only.  A poll leaves every traveler
\* record, every station, every counter and every queued event as it was,
\* and the snapshot it publishes lists exactly the travelers of the registry,
\* each of them active.
C32_SnapshotIsReadOnly ==
    [][last'.op = "poll" =>
        /\ travelers' = travelers
        /\ processingStations' = processingStations
        /\ eventQueue' = eventQueue
        /\ UNCHANGED <<nextEventId, nextId, clockVars, runVars, boxVars, locVars, twoVars,
                       processed, completed>>
        /\ DOMAIN people' = DOMAIN travelers
        /\ \A i \in DOMAIN people' : people'[i].isActive]_vars

\* a poll has published a traveler somewhere along its segment while the
\* registry keeps the point it left from
C32_Witness ==
    /\ last.op = "poll"
    /\ \E i \in DOMAIN people :
          /\ i \in DOMAIN travelers
          /\ segment(travelers[i]).moves
          /\ people[i].x # travelers[i].x

\* C39: the context admits the configured initial travelers once per run.
\* The engine's initialized flag is raised by a start only and lowered by a
\* reset only; a start that finds it raised adds no traveler, hands out no
\* id and schedules nothing; a start that finds it lowered adds travelers
\* under the next ids in a row; a reset empties the registry and restarts
\* the ids, so that the start which follows it spawns travelers 1, 2, ...
C39_SpawnOncePerRun ==
    [][/\ hasBeenInitialized' # hasBeenInitialized
          => last'.op = (IF hasBeenInitialized THEN "reset" ELSE "startSimulation")
       /\ last'.op = "startSimulation" /\ last.op # "startSimulation"
          => IF hasBeenInitialized
             THEN /\ travelers' = travelers
                  /\ nextId' = nextId
                  /\ eventQueue' = eventQueue
                  /\ last'.event.entityId = 0
             ELSE /\ last'.event.entityId >= 1
                  /\ nextId' = nextId + last'.event.entityId
                  /\ DOMAIN travelers' = DOMAIN travelers \cup (nextId..(nextId' - 1))
                  /\ hasBeenInitialized'
                  /\ last.op = "reset" => DOMAIN travelers' = 1..last'.event.entityId
       /\ last'.op = "reset" /\ last.op # "reset"
          => /\ nextId' = 1
             /\ travelers' = <<>>
             /\ ~hasBeenInitialized']_vars

\* the start that follows a reset has spawned two travelers, 1 and 2
C39_Witness ==
    /\ last.op = "startSimulation"
    /\ last.event.type = "reset"
    /\ last.event.entityId = 2
    /\ DOMAIN travelers = {1, 2}
    /\ nextId = 3

\* C40: when SIMULATION_COMPLETE fires, the traveler list and the box status
\* the context published last are those of the engine's final state: no
\* traveler, and as many boxes processed as the run had.
C40_PublishedStateIsFinal ==
    (last.op = "processEvent" /\ last.event.type = "SIMULATION_COMPLETE")
        => /\ people = getTravelerStates
           /\ people = <<>>
           /\ boxStatus = getBoxStatus
           /\ boxStatus.totalProcessed = maxBoxes
=============================================================================
